---- MODULE Spec2Model ----
(***************************************************************************)
(* A model of the two air-quality scripts:                                 *)
(*   format_by_location.py         the reshaper (long table -> wide table) *)
(*   pollution_data_cleaner_gui.py the cleaner (annotate, combine, filter) *)
(*                                                                         *)
(* Data conventions.  A text value is the sequence of its code points, so  *)
(* that Python's str ordering, slicing, joining and formatting can be      *)
(* computed.  Every table cell is a sequence: a text cell is its code      *)
(* points, a number cell is <<n>>, a missing cell (NaN / NaT / None) is    *)
(* the empty sequence, which is also how read_csv reads an empty field.    *)
(* Raw numbers are in units of 1e-4, numbers rounded to 3 decimals are in  *)
(* units of 1e-3, and a mean is the reduced fraction <<num, den>> of       *)
(* 1e-3 units.  Column names are TLA+ strings.                             *)
(***************************************************************************)
EXTENDS Integers, Sequences, FiniteSets, TLC

VARIABLES
    \* make_pollutant_labels, applied as a pure function
    lpc, unique_pollutants, use_abc, labels_out,
    \* format_by_location.py main()
    pc,          \* where main() stands
    df,          \* the loaded long table: [cols, rows]
    date_col, value_col, index_cols,
    wide,        \* the pivoted table: [columns, rows]
    label_map,   \* pollutant name -> column label
    pending,     \* the groups of wide.groupby(group_cols) not yet written
    export_mode, \* the export mode typed by the user, normalised
    sheets,      \* the workbook being written: sheet name -> rows
    out_csv,     \* the rows written by to_csv
    messages,    \* titles of the message boxes shown, in order
    \* pollution_data_cleaner_gui.py main()
    cpc,         \* where main() stands
    files,       \* the paths selected
    frequency, combine,
    next_file,   \* position in files of the loop's next pass
    sources,     \* what each pass of the loop read: [ok, table, pollutant]
    frames,      \* the cleaned tables appended so far
    final_df,    \* the table to export
    filter_call, \* the arguments of the call of filter_data, once made
    exported,    \* the file written by export_cleaned: [name, table]
    cmessages    \* titles of the message boxes shown, in order

lvars == <<lpc, unique_pollutants, use_abc, labels_out>>

rvars == <<pc, df, date_col, value_col, index_cols, wide, label_map, pending,
           export_mode, sheets, out_csv, messages>>

cvars == <<cpc, files, frequency, combine, next_file, sources, frames, final_df,
           filter_call, exported, cmessages>>

vars == <<lvars, rvars, cvars>>

----------------------------------------------------------------------------
(* Generic helpers *)

NaN == <<>>

Range(s) == {s[i] : i \in 1..Len(s)}

Min2(a, b) == IF a < b THEN a ELSE b

\* Python's str < str: code points compared left to right, a proper prefix is smaller.
RECURSIVE LexLess(_, _)
LexLess(a, b) ==
    IF b = <<>> THEN FALSE
    ELSE IF a = <<>> THEN TRUE
    ELSE IF Head(a) # Head(b) THEN Head(a) < Head(b)
    ELSE LexLess(Tail(a), Tail(b))

\* One insertion of x into an ascending sequence, after the elements not larger than it.
RECURSIVE InsertSorted(_, _)
InsertSorted(x, s) ==
    IF s = <<>> THEN <<x>>
    ELSE IF LexLess(x, Head(s)) THEN <<x>> \o s
    ELSE <<Head(s)>> \o InsertSorted(x, Tail(s))

\* Python's sorted() on a list of str (stable, ascending).
RECURSIVE Sorted(_)
Sorted(s) ==
    IF s = <<>> THEN <<>>
    ELSE InsertSorted(s[Len(s)], Sorted(SubSeq(s, 1, Len(s) - 1)))

----------------------------------------------------------------------------
(* Text constants (code points) *)

NO2 == <<78, 79, 50>>                         \* "NO2"
PM25Name == <<80, 77, 50, 46, 53>>            \* "PM2.5"
PM10 == <<80, 77, 49, 48>>                    \* "PM10"
Unknown == <<85, 110, 107, 110, 111, 119, 110>>  \* "Unknown"

\* Other pollutant names a cleaned CSV may carry: "O3" "CO" "SO2" "Pb" "NOx" "VOC" "NH3"
NamePool ==
    << PM25Name, NO2, Unknown, PM10, <<79, 51>>, <<67, 79>>, <<83, 79, 50>>,
       <<80, 98>>, <<78, 79, 120>>, <<86, 79, 67>>, <<78, 72, 51>> >>

----------------------------------------------------------------------------
(* format_by_location.py: make_pollutant_labels *)

\* abc = ["A","B","C","D","E","F","G","H"]
abc == << <<65>>, <<66>>, <<67>>, <<68>>, <<69>>, <<70>>, <<71>>, <<72>> >>

\* f"Pollutant {letter} ({p})"
PollutantLabel(letter, p) ==
    <<80, 111, 108, 108, 117, 116, 97, 110, 116, 32>> \o letter \o <<32, 40>> \o p \o <<41>>

NoLabels == [p \in {} |-> NaN]

\* Mutant: the letter index wraps around instead of running off the list.
LabelsForWrapped(s, abcStyle) ==
    [raised |-> "",
     labels |-> [p \in Range(s) |->
                    LET i == CHOOSE j \in 1..Len(s) :
                                 s[j] = p /\ \A k \in (j + 1)..Len(s) : s[k] # p
                    IN IF abcStyle THEN PollutantLabel(abc[((i - 1) % Len(abc)) + 1], p)
                       ELSE p]]

\* The loop of make_pollutant_labels over the already ordered names s: the
\* i-th name (0-based i) gets abc[i]; abc[i] raises IndexError once i reaches
\* len(abc), and then no mapping is returned.  A repeated name keeps its last
\* assignment (dict overwrite).
LabelsFor(s, abcStyle) ==
    IF abcStyle /\ Len(s) > Len(abc)
    THEN [raised |-> "IndexError", labels |-> NoLabels]
    ELSE [raised |-> "",
          labels |-> [p \in Range(s) |->
                         LET i == CHOOSE j \in 1..Len(s) :
                                      s[j] = p /\ \A k \in (j + 1)..Len(s) : s[k] # p
                         IN IF abcStyle THEN PollutantLabel(abc[i], p) ELSE p]]

\* Mutant: the names are enumerated in the order supplied, not sorted.
make_pollutant_labels_unsorted(pollutantNames, abcStyle) ==
    LabelsFor(pollutantNames, abcStyle)

make_pollutant_labels(pollutantNames, abcStyle) ==
    LabelsFor(Sorted(pollutantNames), abcStyle)

----------------------------------------------------------------------------
(* Specification of the labeler as a pure function *)

MaxPermLen == 3
MaxPollutants == 9

PoolLen == Min2(MaxPollutants, Len(NamePool))

Injective(s) == \A i, j \in 1..Len(s) : i # j => s[i] # s[j]

\* Up to MaxPermLen names: every sequence of distinct names of the pool.
ShortInputs ==
    UNION { {s \in [1..n -> Range(NamePool)] : Injective(s)} : n \in 0..MaxPermLen }

Rotated(s, k) == [i \in 1..Len(s) |-> s[((i + k - 1) % Len(s)) + 1]]
Reversed(s) == [i \in 1..Len(s) |-> s[Len(s) + 1 - i]]

\* Longer lists: the first n names of the pool, in every rotation and its reverse.
LongInputs ==
    UNION { UNION { {Rotated(SubSeq(NamePool, 1, n), k),
                     Reversed(Rotated(SubSeq(NamePool, 1, n), k))} : k \in 0..(n - 1) }
            : n \in (MaxPermLen + 1)..PoolLen }

RFresh ==
    /\ df = [cols |-> <<>>, rows |-> <<>>]
    /\ date_col = "" /\ value_col = "" /\ index_cols = <<>>
    /\ wide = [columns |-> <<>>, rows |-> <<>>]
    /\ label_map = NoLabels
    /\ pending = <<>>
    /\ export_mode = NaN
    /\ sheets = [n \in {} |-> <<>>]
    /\ out_csv = <<>>
    /\ messages = <<>>

RIdle == pc = "idle" /\ RFresh

NoTable == [cols |-> <<>>, rows |-> <<>>]
NoCall == [made |-> FALSE, df |-> NoTable, keyword_type |-> NaN, keyword |-> NaN]
NoExport == [written |-> FALSE, name |-> NaN, table |-> NoTable]

\* The cleaner before main() has shown its welcome box.
CFresh ==
    /\ files = <<>>
    /\ frequency = NaN
    /\ combine = FALSE
    /\ next_file = 1
    /\ sources = <<>>
    /\ frames = <<>>
    /\ final_df = NoTable
    /\ filter_call = NoCall
    /\ exported = NoExport
    /\ cmessages = <<>>

CIdle == cpc = "idle" /\ CFresh

LInit ==
    /\ RIdle
    /\ CIdle
    /\ lpc = "input"
    /\ unique_pollutants \in ShortInputs \cup LongInputs
    /\ use_abc \in BOOLEAN
    /\ labels_out = [raised |-> "", labels |-> NoLabels]

ApplyLabels ==
    /\ lpc = "input"
    /\ labels_out' = make_pollutant_labels(unique_pollutants, use_abc)
    /\ lpc' = "done"
    /\ UNCHANGED <<unique_pollutants, use_abc, rvars, cvars>>

LNext == ApplyLabels

SpecLabeler == LInit /\ [][LNext]_vars

----------------------------------------------------------------------------
(* Claims about the labeler *)

\* Position (1-based) of p among the supplied names in ascending str order.
RankOf(p, names) == 1 + Cardinality({q \in names : LexLess(q, p)})

----------------------------------------------------------------------------
(* format_by_location.py: tables, column resolution, cell conversions *)

\* str.strip(): leading and trailing whitespace removed.
IsSpace(c) == c \in {32, 9, 10, 13}

RECURSIVE LStrip(_)
LStrip(s) == IF s # <<>> /\ IsSpace(Head(s)) THEN LStrip(Tail(s)) ELSE s

RECURSIVE RStrip(_)
RStrip(s) ==
    IF s # <<>> /\ IsSpace(s[Len(s)]) THEN RStrip(SubSeq(s, 1, Len(s) - 1)) ELSE s

Strip(s) == RStrip(LStrip(s))

\* str.upper() and str.lower() on ASCII text.
Upper(s) == [i \in 1..Len(s) |-> IF s[i] >= 97 /\ s[i] <= 122 THEN s[i] - 32 ELSE s[i]]
Lower(s) == [i \in 1..Len(s) |-> IF s[i] >= 65 /\ s[i] <= 90 THEN s[i] + 32 ELSE s[i]]

\* coalesce_cols(df, candidates, default=None): the first candidate that is a
\* column of the table; "" stands for None.
RECURSIVE coalesce_cols(_, _)
coalesce_cols(cols, candidates) ==
    IF candidates = <<>> THEN ""
    ELSE IF Head(candidates) \in Range(cols) THEN Head(candidates)
    ELSE coalesce_cols(cols, Tail(candidates))

\* pd.to_datetime(..., errors="coerce").dt.date on one cell.  A raw date cell
\* holds the fields read from the text: <<y, m, d>> or <<y, m, d, h, mi>>;
\* anything shorter is text that is no date and becomes NaT.
ToDate(cell) == IF Len(cell) >= 3 THEN SubSeq(cell, 1, 3) ELSE NaN

\* round to 3 decimals of a number in 1e-4 units, result in 1e-3 units
\* (numpy rounds half to even).
Round3(n) ==
    LET q == n \div 10
        r == n % 10
    IN IF r < 5 THEN q
       ELSE IF r > 5 THEN q + 1
       ELSE IF q % 2 = 0 THEN q ELSE q + 1

\* pd.to_numeric(..., errors="coerce").round(3) on one cell: a number cell is
\* <<n>>, anything else (missing, text) becomes NaN.
ToNumericRound3(cell) == IF Len(cell) = 1 THEN <<Round3(cell[1])>> ELSE NaN

\* df[date_col] = pd.to_datetime(df[date_col], errors="coerce").dt.date
DatesNormalised(rows, col) ==
    [i \in 1..Len(rows) |-> [rows[i] EXCEPT ![col] = ToDate(@)]]

\* df[value_col] = pd.to_numeric(df[value_col], errors="coerce").round(3)
ValuesRounded(rows, col) ==
    [i \in 1..Len(rows) |-> [rows[i] EXCEPT ![col] = ToNumericRound3(@)]]

----------------------------------------------------------------------------
(* format_by_location.py: the pivot (DataFrame.pivot_table, aggfunc="mean") *)

RECURSIVE Gcd(_, _)
Gcd(a, b) == IF b = 0 THEN a ELSE Gcd(b, a % b)

Abs(n) == IF n < 0 THEN 0 - n ELSE n

\* The exact quotient s / n as a reduced fraction <<num, den>>, den > 0.
Fraction(s, n) ==
    LET g == Gcd(Abs(s), n) IN <<s \div g, n \div g>>

RECURSIVE SumCells(_)
SumCells(cells) ==
    IF cells = <<>> THEN 0
    ELSE (IF Head(cells) = NaN THEN 0 ELSE Head(cells)[1]) + SumCells(Tail(cells))

RECURSIVE CountCells(_)
CountCells(cells) ==
    IF cells = <<>> THEN 0
    ELSE (IF Head(cells) = NaN THEN 0 ELSE 1) + CountCells(Tail(cells))

\* Mutant: a missing value counts as zero in the mean.
MeanNaAsZero(cells) ==
    IF cells = <<>> THEN NaN ELSE Fraction(SumCells(cells), Len(cells))

\* GroupBy.mean(): the mean of the non-missing values, NaN when there is none.
MeanSkipNa(cells) ==
    IF CountCells(cells) = 0 THEN NaN
    ELSE Fraction(SumCells(cells), CountCells(cells))

KeyOf(r, cols) == [i \in 1..Len(cols) |-> r[cols[i]]]

HasNaN(k) == \E i \in 1..Len(k) : k[i] = NaN

\* Order of two group keys: column by column, each cell by its own order.
KeyLess(k1, k2) ==
    \E i \in 1..Len(k1) :
        /\ \A j \in 1..(i - 1) : k1[j] = k2[j]
        /\ LexLess(k1[i], k2[i])

\* The keys of a set in ascending order (groupby / pivot_table sort=True).
RECURSIVE SortKeys(_)
SortKeys(S) ==
    IF S = {} THEN <<>>
    ELSE LET m == CHOOSE k \in S : \A j \in S \ {k} : KeyLess(k, j)
         IN <<m>> \o SortKeys(S \ {m})

\* The names of a set in ascending str order.
RECURSIVE SortNames(_)
SortNames(S) ==
    IF S = {} THEN <<>>
    ELSE LET m == CHOOSE p \in S : \A q \in S \ {p} : LexLess(p, q)
         IN <<m>> \o SortNames(S \ {m})

\* groupby(index + ["Pollutant Name"], dropna=True): the rows whose group key
\* has no missing part.
GroupedRows(rows, idx) ==
    LET Keep(r) == ~HasNaN(KeyOf(r, idx)) /\ r["Pollutant Name"] # NaN
    IN SelectSeq(rows, Keep)

\* .agg("mean") of the value column per group, then dropna(how="all"): the
\* groups whose mean is not missing, as a function group -> mean.
Agged(rows, idx, vcol) ==
    LET kept == GroupedRows(rows, idx)
        G == {<<KeyOf(kept[i], idx), kept[i]["Pollutant Name"]>> : i \in 1..Len(kept)}
        ValuesOf(g) ==
            LET InG(r) == KeyOf(r, idx) = g[1] /\ r["Pollutant Name"] = g[2]
                sel == SelectSeq(kept, InG)
            IN [i \in 1..Len(sel) |-> sel[i][vcol]]
        mean == [g \in G |-> MeanSkipNa(ValuesOf(g))]
    IN [g \in {h \in G : mean[h] # NaN} |-> mean[g]]

\* Mutant: no unstack, one output row per (key, pollutant) group.
WideIndexPerGroup(agged) ==
    LET pols == SortNames({g[2] : g \in DOMAIN agged})
        keys == SortKeys({g[1] : g \in DOMAIN agged})
        PerKey(k) == LET Has(p) == <<k, p>> \in DOMAIN agged
                         ps == SelectSeq(pols, Has)
                     IN [i \in 1..Len(ps) |-> k]
        Cat[i \in 0..Len(keys)] == IF i = 0 THEN <<>> ELSE Cat[i - 1] \o PerKey(keys[i])
    IN Cat[Len(keys)]

\* unstack("Pollutant Name"): the row index of the wide table, one entry per
\* distinct key, ascending.
WideIndex(agged) == SortKeys({g[1] : g \in DOMAIN agged})

\* df.pivot_table(index=index_cols, columns="Pollutant Name", values=value_col,
\* aggfunc="mean").reset_index(): index columns first, then one column per
\* pollutant in ascending order; a (key, pollutant) pair without a group is NaN.
pivot_table(rows, idx, vcol) ==
    LET agged == Agged(rows, idx, vcol)
        pols == SortNames({g[2] : g \in DOMAIN agged})
        keys == WideIndex(agged)
    IN [columns |->
            [i \in 1..Len(idx) |-> [kind |-> "index", name |-> idx[i], label |-> NaN]]
            \o [i \in 1..Len(pols) |-> [kind |-> "pollutant", name |-> "", label |-> pols[i]]],
        rows |->
            [i \in 1..Len(keys) |->
                [key |-> keys[i],
                 vals |-> [p \in Range(pols) |->
                              IF <<keys[i], p>> \in DOMAIN agged
                              THEN agged[<<keys[i], p>>] ELSE NaN]]]]

----------------------------------------------------------------------------
(* format_by_location.py: labels applied to the wide table, sheet writing *)

IsPollutantColumn(c) == c.kind = "pollutant"

\* pollutants = [c for c in wide.columns if c not in index_cols]
PollutantsOf(w) ==
    LET cs == SelectSeq(w.columns, IsPollutantColumn)
    IN [i \in 1..Len(cs) |-> cs[i].label]

\* wide.rename(columns=label_map)
Renamed(w, lm) ==
    [columns |-> [i \in 1..Len(w.columns) |->
                     IF IsPollutantColumn(w.columns[i])
                     THEN [w.columns[i] EXCEPT !.label = lm[@]]
                     ELSE w.columns[i]],
     rows |-> [i \in 1..Len(w.rows) |->
                  [w.rows[i] EXCEPT !.vals =
                      [l \in {lm[p] : p \in DOMAIN lm} |->
                          w.rows[i].vals[CHOOSE p \in DOMAIN lm : lm[p] = l]]]]]

\* front = [date_col] + pollutant_cols; remaining = the other columns in their
\* order; ordered_cols = the front columns present + remaining.
Reordered(w, dcol) ==
    LET IsDate(c) == c.kind = "index" /\ c.name = dcol
        IsRest(c) == ~IsDate(c) /\ ~IsPollutantColumn(c)
    IN [w EXCEPT !.columns =
            SelectSeq(w.columns, IsDate) \o SelectSeq(w.columns, IsPollutantColumn)
            \o SelectSeq(w.columns, IsRest)]

\* The location columns of the table, in the fixed order state, county, city,
\* site, latitude, longitude (those that resolve).
LocationCols(cols) ==
    LET NotNone(c) == c # ""
    IN SelectSeq(<< coalesce_cols(cols, <<"State Name", "State">>),
                    coalesce_cols(cols, <<"County Name", "County">>),
                    coalesce_cols(cols, <<"City Name", "City">>),
                    coalesce_cols(cols, <<"Site Num", "Site Number">>),
                    coalesce_cols(cols, <<"Latitude", "Site Latitude", "Lat">>),
                    coalesce_cols(cols, <<"Longitude", "Site Longitude", "Lon", "Long">>) >>,
                 NotNone)

\* The part of a wide row's key that belongs to the columns gcols.
SubKey(row, idx, gcols) ==
    [i \in 1..Len(gcols) |-> row.key[CHOOSE j \in 1..Len(idx) : idx[j] = gcols[i]]]

\* wide.groupby(group_cols): the groups in ascending key order, each with its
\* rows in table order; a key with a missing part forms no group (dropna=True).
GroupBy(rows, idx, gcols) ==
    LET keys == SortKeys({SubKey(rows[i], idx, gcols) : i \in 1..Len(rows)}
                         \ {k \in {SubKey(rows[i], idx, gcols) : i \in 1..Len(rows)} : HasNaN(k)})
    IN [i \in 1..Len(keys) |->
           LET InGroup(r) == SubKey(r, idx, gcols) = keys[i]
           IN [keys |-> keys[i], sub |-> SelectSeq(rows, InGroup)]]

\* "-".join(parts)
RECURSIVE Join(_)
Join(parts) ==
    IF parts = <<>> THEN <<>>
    ELSE IF Len(parts) = 1 THEN parts[1]
    ELSE parts[1] \o <<45>> \o Join(Tail(parts))

\* The longest sheet name kept: sheet_name = "-".join(name_parts)[:31]
MaxSheetName == 31

Sheet1 == <<83, 104, 101, 101, 116, 49>>      \* "Sheet1"
SheetAll == <<65, 108, 108>>                  \* "All"

\* name_parts = [str(k) for k in keys if pd.notna(k)]; the location cells of the
\* tables modelled are text, and str() of a str is that str.
SheetName(keys) ==
    LET NotNa(k) == k # NaN
        name_parts == SelectSeq(keys, NotNa)
        sheet_name == IF name_parts # <<>>
                      THEN SubSeq(Join(name_parts), 1, Min2(MaxSheetName, Len(Join(name_parts))))
                      ELSE Sheet1
    IN IF sheet_name # <<>> THEN sheet_name ELSE Sheet1

\* sub.to_excel(writer, sheet_name=..., index=False) in write mode: a new name
\* creates a sheet; a name already in the workbook reuses that sheet and the
\* cells are written over it from the first row, so rows of the older table
\* beyond the new table's length stay.
WriteCells(book, name, rows) ==
    IF name \in DOMAIN book
    THEN [book EXCEPT ![name] = rows \o SubSeq(@, Len(rows) + 1, Len(@))]
    ELSE [n \in DOMAIN book \cup {name} |-> IF n = name THEN rows ELSE book[n]]

----------------------------------------------------------------------------
(* format_by_location.py: the input tables considered *)

MaxRows == 2

Maryland == <<77, 97, 114, 121, 108, 97, 110, 100>>             \* "Maryland"
Baltimore == <<66, 97, 108, 116, 105, 109, 111, 114, 101>>      \* "Baltimore"
\* "Baltimore Inner Harbor E" and "Baltimore Inner Harbor W"
HarborE ==
    <<66, 97, 108, 116, 105, 109, 111, 114, 101, 32, 73, 110, 110, 101, 114, 32,
      72, 97, 114, 98, 111, 114, 32, 69>>
HarborW ==
    <<66, 97, 108, 116, 105, 109, 111, 114, 101, 32, 73, 110, 110, 101, 114, 32,
      72, 97, 114, 98, 111, 114, 32, 87>>

Headers ==
    { <<"State Name", "City Name", "Date", "Arithmetic Mean", "Pollutant Name">>,
      <<"Date Local", "Arithmetic Mean", "Pollutant Name">>,
      <<"Date", "Arithmetic Mean">>,
      <<"Day", "1st Max Value", "Pollutant Name">> }

\* The cells a column of an input CSV may hold.
ColDomain(c) ==
    CASE c = "State Name" -> {NaN, Maryland}
      [] c = "City Name" -> {Baltimore, HarborE, HarborW}
      [] c = "Date" -> {<<2025, 1, 10>>}
      [] c = "Date Local" -> {<<2025, 1, 10>>, <<2025, 1, 10, 5, 0>>, <<0>>}
      [] c = "Day" -> {<<2025, 1, 10>>}
      [] c = "Arithmetic Mean" -> {NaN, <<100000>>, <<120004>>}
      [] c = "1st Max Value" -> {<<100000>>, <<98067>>}
      [] c = "Pollutant Name" -> {NO2, PM25Name}

RECURSIVE RowsOver(_)
RowsOver(cols) ==
    IF cols = <<>> THEN {[c \in {} |-> NaN]}
    ELSE {(Head(cols) :> v) @@ r : v \in ColDomain(Head(cols)), r \in RowsOver(Tail(cols))}

TablesOver(cols) ==
    UNION { [1..n -> RowsOver(cols)] : n \in 0..MaxRows }

\* What the user may type when asked for a column name ("" is Cancel).
ColumnAnswers == {"", "Day", "1st Max Value", "Nope"}

\* What the user may type when asked for the label style or the export mode
\* (NaN is Cancel): "ABC", "NAME", " name ", "CSV", "XLSX", "xlsx ".
StyleAnswers == {NaN, <<65, 66, 67>>, <<78, 65, 77, 69>>, <<32, 110, 97, 109, 101, 32>>}
ModeAnswers == {NaN, <<67, 83, 86>>, <<88, 76, 83, 88>>, <<120, 108, 115, 120, 32>>}

CSV == <<67, 83, 86>>
XLSX == <<88, 76, 83, 88>>

----------------------------------------------------------------------------
(* format_by_location.py: main() *)

Show(title) == messages' = Append(messages, title)

\* Lines 69-78: no input file or no output folder selected.
NothingSelected ==
    /\ pc = "start"
    /\ \E in_file \in BOOLEAN :
          Show(IF in_file THEN "No folder" ELSE "No file")
    /\ pc' = "returned"
    /\ UNCHANGED <<lvars, cvars, df, date_col, value_col, index_cols, wide, label_map, pending,
                   export_mode, sheets, out_csv>>

\* Line 81: df = pd.read_csv(in_file)
LoadCsv ==
    /\ pc = "start"
    /\ \E hdr \in Headers : \E rows \in TablesOver(hdr) :
          df' = [cols |-> hdr, rows |-> rows]
    /\ Show("Wide Maker")
    /\ pc' = "loaded"
    /\ UNCHANGED <<lvars, cvars, date_col, value_col, index_cols, wide, label_map, pending,
                   export_mode, sheets, out_csv>>

\* Lines 84-121: the date and value columns (asked for when not found), the
\* date normalised, the index columns, the Pollutant Name check, the values
\* made numeric and rounded.
ResolveColumns ==
    /\ pc = "loaded"
    /\ \E date_answer \in ColumnAnswers, value_answer \in ColumnAnswers :
          LET found == coalesce_cols(df.cols, <<"Date", "Date Local", "Date Observed", "Date GMT">>)
              dcol == IF found # "" THEN found ELSE date_answer
              no_date == found = "" /\ (date_answer = "" \/ date_answer \notin Range(df.cols))
              dated == DatesNormalised(df.rows, dcol)
              vfound == IF "Arithmetic Mean" \in Range(df.cols) THEN "Arithmetic Mean" ELSE ""
              vcol == IF vfound # "" THEN vfound ELSE value_answer
              no_value == vfound = "" /\ (value_answer = "" \/ value_answer \notin Range(df.cols))
              NotNone(c) == c # ""
              idx == SelectSeq(LocationCols(df.cols) \o <<dcol>>, NotNone)
          IN IF no_date
             THEN /\ Show("Missing date") /\ pc' = "returned"
                  /\ UNCHANGED <<df, date_col, value_col, index_cols>>
             ELSE IF no_value
             THEN /\ Show("Missing value") /\ pc' = "returned"
                  /\ df' = [df EXCEPT !.rows = dated]
                  /\ date_col' = dcol
                  /\ UNCHANGED <<value_col, index_cols>>
             ELSE IF "Pollutant Name" \notin Range(df.cols)
             THEN /\ Show("Missing") /\ pc' = "returned"
                  /\ df' = [df EXCEPT !.rows = dated]
                  /\ date_col' = dcol /\ value_col' = vcol /\ index_cols' = idx
             ELSE /\ df' = [df EXCEPT !.rows = ValuesRounded(dated, vcol)]
                  /\ date_col' = dcol /\ value_col' = vcol /\ index_cols' = idx
                  /\ pc' = "resolved"
                  /\ UNCHANGED messages
    /\ UNCHANGED <<lvars, cvars, wide, label_map, pending, export_mode, sheets, out_csv>>

\* Lines 124-129: wide = df.pivot_table(...).reset_index()
Pivot ==
    /\ pc = "resolved"
    /\ wide' = pivot_table(df.rows, index_cols, value_col)
    /\ pc' = "pivoted"
    /\ UNCHANGED <<lvars, cvars, df, date_col, value_col, index_cols, label_map, pending,
                   export_mode, sheets, out_csv, messages>>

\* Lines 132-147: the label style asked for, the label map built, the columns
\* renamed and reordered.  An exception of make_pollutant_labels leaves main().
Label ==
    /\ pc = "pivoted"
    /\ \E label_style \in StyleAnswers :
          LET abcStyle == Upper(Strip(label_style)) # <<78, 65, 77, 69>>
              made == make_pollutant_labels(PollutantsOf(wide), abcStyle)
          IN IF made.raised # ""
             THEN pc' = "raised" /\ UNCHANGED <<wide, label_map>>
             ELSE /\ label_map' = made.labels
                  /\ wide' = Reordered(Renamed(wide, made.labels), date_col)
                  /\ pc' = "labelled"
    /\ UNCHANGED <<lvars, cvars, df, date_col, value_col, index_cols, pending, export_mode,
                   sheets, out_csv, messages>>

NormalMode(answer) == Upper(Strip(IF answer = NaN THEN CSV ELSE answer))

\* Lines 182-185: the single wide CSV.
ExportCsv ==
    /\ pc = "labelled"
    /\ \E answer \in ModeAnswers :
          /\ NormalMode(answer) # XLSX
          /\ export_mode' = NormalMode(answer)
    /\ out_csv' = wide.rows
    /\ Show("Done")
    /\ pc' = "done"
    /\ UNCHANGED <<lvars, cvars, df, date_col, value_col, index_cols, wide, label_map, pending, sheets>>

\* Lines 157-164: XLSX asked for but openpyxl cannot be imported.
ExportNoOpenpyxl ==
    /\ pc = "labelled"
    /\ \E answer \in ModeAnswers :
          /\ NormalMode(answer) = XLSX
          /\ export_mode' = NormalMode(answer)
    /\ Show("Dependency")
    /\ pc' = "returned"
    /\ UNCHANGED <<lvars, cvars, df, date_col, value_col, index_cols, wide, label_map, pending,
                   sheets, out_csv>>

\* Lines 166-173: the writer opened, the location groups formed.
OpenWriter ==
    /\ pc = "labelled"
    /\ \E answer \in ModeAnswers :
          /\ NormalMode(answer) = XLSX
          /\ export_mode' = NormalMode(answer)
    /\ IF LocationCols(df.cols) = <<>>
       THEN pc' = "write_all" /\ pending' = <<>>
       ELSE /\ pc' = "write_groups"
            /\ pending' = GroupBy(wide.rows, index_cols, LocationCols(df.cols))
    /\ UNCHANGED <<lvars, cvars, df, date_col, value_col, index_cols, wide, label_map, sheets,
                   out_csv, messages>>

\* Line 171: no location column, one sheet "All".
WriteAll ==
    /\ pc = "write_all"
    /\ sheets' = WriteCells(sheets, SheetAll, wide.rows)
    /\ pc' = "closing"
    /\ UNCHANGED <<lvars, cvars, df, date_col, value_col, index_cols, wide, label_map, pending,
                   export_mode, out_csv, messages>>

\* Lines 173-179: one pass of the loop over the groups.
WriteSheet ==
    /\ pc = "write_groups"
    /\ pending # <<>>
    /\ sheets' = WriteCells(sheets, SheetName(Head(pending).keys), Head(pending).sub)
    /\ pending' = Tail(pending)
    /\ pc' = IF Tail(pending) = <<>> THEN "closing" ELSE "write_groups"
    /\ UNCHANGED <<lvars, cvars, df, date_col, value_col, index_cols, wide, label_map,
                   export_mode, out_csv, messages>>

\* Lines 166 and 181: the with block left, the workbook saved.  A workbook
\* without any sheet cannot be saved: openpyxl raises IndexError.
CloseWriter ==
    /\ \/ pc = "closing"
       \/ pc = "write_groups" /\ pending = <<>>
    /\ IF DOMAIN sheets = {}
       THEN pc' = "raised" /\ UNCHANGED messages
       ELSE pc' = "done" /\ Show("Done")
    /\ UNCHANGED <<lvars, cvars, df, date_col, value_col, index_cols, wide, label_map, pending,
                   export_mode, sheets, out_csv>>

LIdle ==
    /\ lpc = "idle"
    /\ unique_pollutants = <<>>
    /\ use_abc = FALSE
    /\ labels_out = [raised |-> "", labels |-> NoLabels]

RInit == pc = "start" /\ RFresh /\ LIdle /\ CIdle

RNext ==
    \/ NothingSelected
    \/ LoadCsv
    \/ ResolveColumns
    \/ Pivot
    \/ Label
    \/ ExportCsv
    \/ ExportNoOpenpyxl
    \/ OpenWriter
    \/ WriteAll
    \/ WriteSheet
    \/ CloseWriter

SpecReshaper == RInit /\ [][RNext]_vars

----------------------------------------------------------------------------
(* Claims about the reshaper *)

Pivoted == pc \in {"pivoted", "labelled", "write_all", "write_groups", "closing", "done"}

\* The cell of wide row r for pollutant p: under the pollutant's name right
\* after the pivot, under its label once the columns are renamed.
CellOf(r, p) == IF pc = "pivoted" THEN r.vals[p] ELSE r.vals[label_map[p]]

PivotedPollutants == IF pc = "pivoted" THEN Range(PollutantsOf(wide)) ELSE DOMAIN label_map

\* The input rows (positions) with grouping key k, pollutant p and a value.
Contributing(k, p) ==
    {i \in 1..Len(df.rows) :
        /\ KeyOf(df.rows[i], index_cols) = k
        /\ df.rows[i]["Pollutant Name"] = p
        /\ df.rows[i][value_col] # NaN}

RECURSIVE SumOfValues(_)
SumOfValues(I) ==
    IF I = {} THEN 0
    ELSE LET i == CHOOSE j \in I : TRUE
         IN df.rows[i][value_col][1] + SumOfValues(I \ {i})

\* C1: the wide table produced by the pivot has no two rows with the same
\* grouping-key tuple (location columns present plus the date column).
C1_PivotRowsUnique ==
    Pivoted =>
        \A i, j \in 1..Len(wide.rows) : i # j => wide.rows[i].key # wide.rows[j].key

\* Witness of C1: two input rows with the same complete key and different
\* pollutants were pivoted into one wide row.
C1_Witness ==
    /\ pc = "pivoted"
    /\ Len(df.rows) = 2
    /\ KeyOf(df.rows[1], index_cols) = KeyOf(df.rows[2], index_cols)
    /\ df.rows[1]["Pollutant Name"] # df.rows[2]["Pollutant Name"]
    /\ df.rows[1][value_col] # NaN /\ df.rows[2][value_col] # NaN
    /\ Len(wide.rows) = 1
    /\ Len(PollutantsOf(wide)) = 2

C9_MissingKeyRowsKept ==
    Pivoted =>
        \A i \in 1..Len(df.rows) :
            (/\ HasNaN(KeyOf(df.rows[i], index_cols))
             /\ df.rows[i]["Pollutant Name"] # NaN
             /\ df.rows[i][value_col] # NaN)
            => Cardinality({n \in 1..Len(wide.rows) :
                               wide.rows[n].key = KeyOf(df.rows[i], index_cols)}) = 1

\* The places (sheet, position) of the written workbook that hold row r.
PlacesOf(r) ==
    {pl \in UNION {{<<n, i>> : i \in 1..Len(sheets[n])} : n \in DOMAIN sheets} :
        sheets[pl[1]][pl[2]] = r}

\* C3: after a per-location export, every row of the final wide table is in
\* exactly one written partition and the written partitions hold nothing else.
C3_PartitionsExhaustive ==
    (pc = "done" /\ export_mode = XLSX) =>
        /\ \A n \in 1..Len(wide.rows) : Cardinality(PlacesOf(wide.rows[n])) = 1
        /\ \A s \in DOMAIN sheets : Range(sheets[s]) \subseteq Range(wide.rows)

----------------------------------------------------------------------------
(* pollution_data_cleaner_gui.py: configuration and text helpers *)

DROP_COLS ==
    {"Pollutant Standard", "Date Last Change", "Event Type", "AQI", "CBSA", "Datum"}

PM25Prefix == <<80, 77, 50, 53>>            \* "PM25"
UNKNOWN == <<85, 78, 75, 78, 79, 87, 78>>      \* "UNKNOWN"

\* POLLUTANT_PREFIX.get(pollutant, "UNKNOWN")
PollutantPrefix(pollutant) ==
    CASE pollutant = PM25Name -> PM25Prefix
      [] pollutant = PM10 -> PM10
      [] pollutant = NO2 -> NO2
      [] OTHER -> UNKNOWN

Coordinates == <<99, 111, 111, 114, 100, 105, 110, 97, 116, 101, 115>>   \* "coordinates"

\* FILTER_MAP.get(kt) when it is a str: "" stands for None and for the list
\* under "coordinates" (isinstance(col, str) fails for both).
FilterColumn(kt) ==
    CASE kt = <<115, 116, 97, 116, 101>> -> "State Name"
      [] kt = <<99, 105, 116, 121>> -> "City Name"
      [] kt = <<99, 111, 117, 110, 116, 121>> -> "County Name"
      [] kt = <<115, 105, 116, 101>> -> "Site Num"
      [] OTHER -> ""

\* needle in hay
Contains(hay, needle) ==
    \E i \in 1..(Len(hay) - Len(needle) + 1) : SubSeq(hay, i, i + Len(needle) - 1) = needle

\* s.replace(c, "")
RECURSIVE Without(_, _)
Without(s, c) ==
    IF s = <<>> THEN <<>>
    ELSE IF Head(s) = c THEN Without(Tail(s), c)
    ELSE <<Head(s)>> \o Without(Tail(s), c)

\* os.path.basename(path): what follows the last "/".
RECURSIVE Basename(_)
Basename(path) ==
    IF 47 \in Range(path) THEN Basename(Tail(path)) ELSE path

\* s.split(","): the fields between the commas.
RECURSIVE Split(_)
Split(s) ==
    IF 44 \notin Range(s) THEN <<s>>
    ELSE LET i == CHOOSE j \in 1..Len(s) : s[j] = 44 /\ \A k \in 1..(j - 1) : s[k] # 44
         IN <<SubSeq(s, 1, i - 1)>> \o Split(SubSeq(s, i + 1, Len(s)))

IsDigit(c) == c >= 48 /\ c <= 57

RECURSIVE LeadingDigits(_)
LeadingDigits(s) ==
    IF s # <<>> /\ IsDigit(Head(s)) THEN <<Head(s)>> \o LeadingDigits(Tail(s)) ELSE <<>>

RECURSIVE DecimalValue(_)
DecimalValue(ds) ==
    IF ds = <<>> THEN 0 ELSE 10 * DecimalValue(SubSeq(ds, 1, Len(ds) - 1)) + (ds[Len(ds)] - 48)

\* float(text) for plain decimal text (sign, digits, point, digits) of at most
\* four decimals: [ok, v] with v in 1e-4 units; ok is FALSE where float()
\* raises ValueError.  Exponents, "inf" and "nan" are not among the texts used.
ParseFloat(text) ==
    LET s == Strip(text)
        signed == s # <<>> /\ Head(s) \in {43, 45}
        body == IF signed THEN Tail(s) ELSE s
        whole == LeadingDigits(body)
        rest == SubSeq(body, Len(whole) + 1, Len(body))
        pointed == rest # <<>> /\ Head(rest) = 46
        frac == IF pointed THEN LeadingDigits(Tail(rest)) ELSE <<>>
        tail == IF pointed THEN SubSeq(rest, Len(frac) + 2, Len(rest)) ELSE rest
        frac4 == [i \in 1..4 |-> IF i <= Len(frac) THEN frac[i] ELSE 48]
        mag == DecimalValue(whole) * 10000 + DecimalValue(frac4)
    IN IF tail # <<>> \/ Len(whole) + Len(frac) = 0 \/ Len(frac) > 4
       THEN [ok |-> FALSE, v |-> 0]
       ELSE [ok |-> TRUE, v |-> IF signed /\ Head(s) = 45 THEN 0 - mag ELSE mag]

\* The decimal digits of a natural number.
RECURSIVE Digits(_)
Digits(n) == IF n < 10 THEN <<48 + n>> ELSE Digits(n \div 10) \o <<48 + (n % 10)>>

\* f"{i:04d}": the digits of i, zero-padded on the left to width 4.
Format04d(i) ==
    LET ds == Digits(i)
    IN [k \in 1..(IF Len(ds) < 4 THEN 4 - Len(ds) ELSE 0) |-> 48] \o ds

----------------------------------------------------------------------------
(* pollution_data_cleaner_gui.py: pollutant detection *)

\* pollutant_from_filename(path)
pollutant_from_filename(path) ==
    LET name == Lower(Basename(path))
    IN IF Contains(name, <<112, 109, 50, 46, 53>>) \/ Contains(name, <<112, 109, 50, 53>>) THEN PM25Name
       ELSE IF Contains(name, <<112, 109, 49, 48>>) THEN PM10
       ELSE IF Contains(name, <<110, 111, 50>>) THEN NO2
       ELSE Unknown

\* ask_pollutant_for_file(path): answer is what the user typed, NaN for Cancel.
ask_pollutant_for_file(answer) ==
    LET p == Without(Upper(Strip(answer)), 32)
    IN IF answer = NaN THEN Unknown
       ELSE IF p = <<80, 77, 50, 46, 53>> \/ p = <<80, 77, 50, 53>> THEN PM25Name
       ELSE IF p = <<80, 77, 49, 48>> THEN PM10
       ELSE IF p = <<78, 79, 50>> THEN NO2
       ELSE Unknown

----------------------------------------------------------------------------
(* pollution_data_cleaner_gui.py: clean_and_label_dataframe *)

\* Mutant: the Sample IDs are numbered from 0.
SampleIdsFromZero(prefix, n) ==
    [i \in 1..n |-> prefix \o <<45>> \o Format04d(i - 1)]

\* [f"{prefix}-{i:04d}" for i in range(1, len(df)+1)]
SampleIds(prefix, n) ==
    [i \in 1..n |-> prefix \o <<45>> \o Format04d(i)]

RoundedCols == {"Arithmetic Mean", "1st Max Value", "1st Max Daily Value"}

clean_and_label_dataframe(t, pollutant) ==
    LET NotDropped(c) == c \notin DROP_COLS
        NotLabel(c) == c \notin {"Sample ID", "Pollutant Name"}
        kept == SelectSeq(t.cols, NotDropped)
        ids == SampleIds(PollutantPrefix(pollutant), Len(t.rows))
        cols == <<"Sample ID", "Pollutant Name">> \o SelectSeq(kept, NotLabel)
    IN [cols |-> cols,
        rows |-> [i \in 1..Len(t.rows) |->
                     [c \in Range(cols) |->
                         IF c = "Sample ID" THEN ids[i]
                         ELSE IF c = "Pollutant Name" THEN pollutant
                         ELSE IF c \in RoundedCols THEN ToNumericRound3(t.rows[i][c])
                         ELSE t.rows[i][c]]]]

----------------------------------------------------------------------------
(* pollution_data_cleaner_gui.py: filter_data *)

\* Series.astype(str) on a cell of a text column: a missing cell reads "nan".
AsStr(cell) == IF cell = NaN THEN <<110, 97, 110>> ELSE cell

\* Series.round(3) on a cell of Latitude / Longitude (1e-4 units): NaN stays.
RoundCell(cell) == IF cell = NaN THEN NaN ELSE <<Round3(cell[1])>>

\* The try block of the coordinates branch: [raised, rows].  raised when the
\* keyword does not unpack into two floats (ValueError) or a column is absent
\* (KeyError).
CoordinateMatch(t, keyword) ==
    LET parts == Split(keyword)
        lat == ParseFloat(parts[1])
        lon == ParseFloat(parts[2])
        Hit(r) == /\ RoundCell(r["Latitude"]) = <<Round3(lat.v)>>
                  /\ RoundCell(r["Longitude"]) = <<Round3(lon.v)>>
    IN IF Len(parts) # 2 THEN [raised |-> TRUE, rows |-> <<>>]
       ELSE IF ~lat.ok \/ ~lon.ok THEN [raised |-> TRUE, rows |-> <<>>]
       ELSE IF "Latitude" \notin Range(t.cols) \/ "Longitude" \notin Range(t.cols)
       THEN [raised |-> TRUE, rows |-> <<>>]
       ELSE [raised |-> FALSE, rows |-> SelectSeq(t.rows, Hit)]

\* filter_data(df, keyword_type, keyword): the table returned and the message
\* boxes shown.  The keyword is matched as plain text (no regex metacharacter
\* is among the keywords used), case-insensitively.
filter_data(t, keyword_type, keyword) ==
    LET kt == Lower(Strip(keyword_type))
        col == FilterColumn(kt)
        Has(r) == Contains(Lower(AsStr(r[col])), Lower(keyword))
        m == CoordinateMatch(t, keyword)
    IN IF kt = Coordinates
       THEN IF m.raised THEN [df |-> t, shown |-> <<"Error">>]
            ELSE [df |-> [t EXCEPT !.rows = m.rows], shown |-> <<>>]
       ELSE IF col # "" /\ col \in Range(t.cols)
       THEN [df |-> [t EXCEPT !.rows = SelectSeq(t.rows, Has)], shown |-> <<>>]
       ELSE [df |-> t, shown |-> <<>>]

----------------------------------------------------------------------------
(* pollution_data_cleaner_gui.py: concat and export_cleaned *)

\* The elements of s without repeats, in order of first appearance.
RECURSIVE Unique(_)
Unique(s) ==
    IF s = <<>> THEN <<>>
    ELSE LET u == Unique(SubSeq(s, 1, Len(s) - 1))
         IN IF s[Len(s)] \in Range(u) THEN u ELSE Append(u, s[Len(s)])

RECURSIVE Flatten(_)
Flatten(ss) == IF ss = <<>> THEN <<>> ELSE Head(ss) \o Flatten(Tail(ss))

\* pd.concat(frames, ignore_index=True): the rows of the frames one frame
\* after the other, over the union of the columns, NaN where a frame has no
\* such column.
Concat(fs) ==
    LET cols == Unique(Flatten([i \in 1..Len(fs) |-> fs[i].cols]))
        Widen(f) == [i \in 1..Len(f.rows) |->
                        [c \in Range(cols) |->
                            IF c \in Range(f.cols) THEN f.rows[i][c] ELSE NaN]]
    IN [cols |-> cols, rows |-> Flatten([i \in 1..Len(fs) |-> Widen(fs[i])])]

\* "_".join(parts)
RECURSIVE JoinUnderscore(_)
JoinUnderscore(parts) ==
    IF parts = <<>> THEN <<>>
    ELSE IF Len(parts) = 1 THEN parts[1]
    ELSE parts[1] \o <<95>> \o JoinUnderscore(Tail(parts))

\* export_cleaned: f"{frequency.lower()}_{pollutants_str}_cleaned.csv"
ExportName(t, freq) ==
    LET NotNa(p) == p # NaN
        pollutants == Unique(SelectSeq([i \in 1..Len(t.rows) |-> t.rows[i]["Pollutant Name"]], NotNa))
        tokens == [i \in 1..Len(pollutants) |-> Without(Without(pollutants[i], 46), 32)]
        pollutants_str == IF pollutants # <<>> THEN JoinUnderscore(tokens) ELSE Unknown
    IN Lower(freq) \o <<95>> \o pollutants_str \o <<95, 99, 108, 101, 97, 110, 101, 100, 46, 99, 115, 118>>

----------------------------------------------------------------------------
(* pollution_data_cleaner_gui.py: the inputs considered *)

MaxFiles == 2
MaxFileRows == 2

Iowa == <<73, 111, 119, 97>>                               \* "Iowa"
WGS84 == <<87, 71, 83, 56, 52>>                        \* "WGS84"

PathPm25 == <<100, 97, 105, 108, 121, 95, 112, 109, 50, 53, 46, 99, 115, 118>>
                                                        \* "daily_pm25.csv"
PathNo2 == <<78, 79, 50, 46, 99, 115, 118>>           \* "NO2.csv"
PathData == <<110, 111, 50, 47, 100, 97, 116, 97, 46, 99, 115, 118>>
                                                        \* "no2/data.csv"
Paths == {PathPm25, PathNo2, PathData}

Row6(a, b, c, d, e, f) ==
    [col \in {"State Name", "City Name", "Latitude", "Longitude", "Arithmetic Mean", "AQI"} |->
        CASE col = "State Name" -> a [] col = "City Name" -> b [] col = "Latitude" -> c
          [] col = "Longitude" -> d [] col = "Arithmetic Mean" -> e [] col = "AQI" -> f]

Row3(a, b, c) ==
    [col \in {"Arithmetic Mean", "1st Max Value", "Datum"} |->
        CASE col = "Arithmetic Mean" -> a [] col = "1st Max Value" -> b [] col = "Datum" -> c]

Row4(a, b, c, d) ==
    [col \in {"State Name", "Latitude", "Longitude", "Arithmetic Mean"} |->
        CASE col = "State Name" -> a [] col = "Latitude" -> b
          [] col = "Longitude" -> c [] col = "Arithmetic Mean" -> d]

\* The content of each CSV file (numbers in 1e-4 units, e.g. 39.2904, 9.8067).
FileContent(path) ==
    CASE path = PathPm25 ->
            [cols |-> <<"State Name", "City Name", "Latitude", "Longitude", "Arithmetic Mean", "AQI">>,
             rows |-> << Row6(Maryland, Baltimore, <<392904>>, <<-766101>>, <<98067>>, <<410000>>),
                         Row6(Iowa, NaN, <<415868>>, <<-936250>>, <<120000>>, <<500000>>),
                         Row6(NaN, NaN, NaN, NaN, NaN, NaN) >>]
      [] path = PathNo2 ->
            [cols |-> <<"Arithmetic Mean", "1st Max Value", "Datum">>,
             rows |-> << Row3(<<152000>>, <<200004>>, WGS84),
                         Row3(NaN, <<180000>>, WGS84),
                         Row3(<<100000>>, NaN, NaN) >>]
      [] path = PathData ->
            [cols |-> <<"State Name", "Latitude", "Longitude", "Arithmetic Mean">>,
             rows |-> << Row4(Maryland, <<392896>>, <<-766104>>, <<71000>>),
                         Row4(Iowa, <<415868>>, <<-936250>>, <<62500>>),
                         Row4(Maryland, <<392904>>, NaN, <<98067>>) >>]

\* The table read_csv returns for a file of which n rows are there.
TableRead(path, n) ==
    [cols |-> FileContent(path).cols,
     rows |-> SubSeq(FileContent(path).rows, 1, Min2(n, Len(FileContent(path).rows)))]

FileLists == UNION { [1..n -> Paths] : n \in 0..MaxFiles }

\* Answers typed into the dialogs; NaN is Cancel.
FrequencyAnswers == {NaN, <<32, 68, 97, 105, 108, 121, 32>>}          \* " Daily "
PollutantAnswers == {NaN, <<112, 109, 32, 49, 48>>}             \* "pm 10"
\* "coordinates", " State ", "city", "zip"
KeywordTypes ==
    { NaN, Coordinates, <<32, 83, 116, 97, 116, 101, 32>>, <<99, 105, 116, 121>>, <<122, 105, 112>> }
\* "39.290, -76.610", "39.290", "abc, def", "1, 2, 3", "mary"
GoodCoordinates == <<51, 57, 46, 50, 57, 48, 44, 32, 45, 55, 54, 46, 54, 49, 48>>
BadCoordinates ==
    { <<51, 57, 46, 50, 57, 48>>, <<97, 98, 99, 44, 32, 100, 101, 102>>, <<49, 44, 32, 50, 44, 32, 51>>, <<109, 97, 114, 121>> }
Keywords == {NaN, GoodCoordinates} \cup BadCoordinates


----------------------------------------------------------------------------
(* pollution_data_cleaner_gui.py: main() *)

CShow(title) == cmessages' = Append(cmessages, title)

\* Lines 151-156: the welcome box, no file selected.
NoFiles ==
    /\ cpc = "start"
    /\ cmessages' = <<"Pollution Data Cleaner", "No Files">>
    /\ cpc' = "exited"
    /\ UNCHANGED <<lvars, rvars, files, frequency, combine, next_file, sources,
                   frames, final_df, filter_call, exported>>

\* Lines 151-153: the welcome box, files = select_files()
SelectFiles ==
    /\ cpc = "start"
    /\ \E fs \in FileLists \ {<<>>} : files' = fs
    /\ CShow("Pollution Data Cleaner")
    /\ cpc' = "selected"
    /\ UNCHANGED <<lvars, rvars, frequency, combine, next_file, sources, frames,
                   final_df, filter_call, exported>>

\* Lines 158-161: no frequency entered.
NoFrequency ==
    /\ cpc = "selected"
    /\ CShow("Missing Input")
    /\ cpc' = "exited"
    /\ UNCHANGED <<lvars, rvars, files, frequency, combine, next_file, sources,
                   frames, final_df, filter_call, exported>>

\* Lines 158-166: the frequency, the combine question, frames = [].
AskFrequency ==
    /\ cpc = "selected"
    /\ \E answer \in FrequencyAnswers \ {NaN} : frequency' = Lower(Strip(answer))
    /\ combine' \in BOOLEAN
    /\ frames' = <<>>
    /\ next_file' = 1
    /\ cpc' = "reading"
    /\ UNCHANGED <<lvars, rvars, files, sources, final_df, filter_call, exported,
                   cmessages>>

\* Lines 167-176: one pass of the loop, the file is read and cleaned.
ReadFile ==
    /\ cpc = "reading"
    /\ next_file <= Len(files)
    /\ \E n \in 0..MaxFileRows, answer \in PollutantAnswers :
          LET table == TableRead(files[next_file], n)
              detected == pollutant_from_filename(files[next_file])
              pollutant == IF detected = Unknown THEN ask_pollutant_for_file(answer)
                           ELSE detected
          IN /\ frames' = Append(frames, clean_and_label_dataframe(table, pollutant))
             /\ sources' = Append(sources, [ok |-> TRUE, table |-> table, pollutant |-> pollutant])
    /\ next_file' = next_file + 1
    /\ UNCHANGED <<lvars, rvars, cpc, files, frequency, combine, final_df,
                   filter_call, exported, cmessages>>

\* Lines 167-178: one pass of the loop, read_csv raises and the error is shown.
ReadFileFails ==
    /\ cpc = "reading"
    /\ next_file <= Len(files)
    /\ sources' = Append(sources, [ok |-> FALSE, table |-> NoTable, pollutant |-> NaN])
    /\ CShow("Error Reading File")
    /\ next_file' = next_file + 1
    /\ UNCHANGED <<lvars, rvars, cpc, files, frequency, combine, frames, final_df,
                   filter_call, exported>>

\* Line 180: final_df = pd.concat(frames, ignore_index=True) if combine else
\* frames[0].  With no frame pd.concat raises ValueError and frames[0]
\* raises IndexError; nothing catches either.
Combine ==
    /\ cpc = "reading"
    /\ next_file > Len(files)
    /\ IF frames = <<>>
       THEN cpc' = "raised" /\ UNCHANGED final_df
       ELSE /\ final_df' = IF combine THEN Concat(frames) ELSE frames[1]
            /\ cpc' = "combined"
    /\ UNCHANGED <<lvars, rvars, files, frequency, combine, next_file, sources,
                   frames, filter_call, exported, cmessages>>

\* Lines 183-186: no filter wanted, or a type or keyword left empty.
SkipFilter ==
    /\ cpc = "combined"
    /\ cpc' = "filtered"
    /\ UNCHANGED <<lvars, rvars, files, frequency, combine, next_file, sources,
                   frames, final_df, filter_call, exported, cmessages>>

\* Lines 183-187: final_df = filter_data(final_df, kt, kw)
Filter ==
    /\ cpc = "combined"
    /\ \E kt \in KeywordTypes \ {NaN}, kw \in Keywords \ {NaN} :
          /\ filter_call' = [made |-> TRUE, df |-> final_df, keyword_type |-> kt, keyword |-> kw]
          /\ final_df' = filter_data(final_df, kt, kw).df
          /\ cmessages' = cmessages \o filter_data(final_df, kt, kw).shown
    /\ cpc' = "filtered"
    /\ UNCHANGED <<lvars, rvars, files, frequency, combine, next_file, sources,
                   frames, exported>>

\* Lines 189-192: no output folder selected.
NoOutputFolder ==
    /\ cpc = "filtered"
    /\ CShow("No Output Folder")
    /\ cpc' = "exited"
    /\ UNCHANGED <<lvars, rvars, files, frequency, combine, next_file, sources,
                   frames, final_df, filter_call, exported>>

\* Lines 194-195: export_cleaned(final_df, frequency, out_dir)
Export ==
    /\ cpc = "filtered"
    /\ exported' = [written |-> TRUE, name |-> ExportName(final_df, frequency),
                    table |-> final_df]
    /\ cmessages' = cmessages \o <<"Success", "Done">>
    /\ cpc' = "exported"
    /\ UNCHANGED <<lvars, rvars, files, frequency, combine, next_file, sources,
                   frames, final_df, filter_call>>

CInit == cpc = "start" /\ CFresh /\ LIdle /\ RIdle

CNext ==
    \/ NoFiles
    \/ SelectFiles
    \/ NoFrequency
    \/ AskFrequency
    \/ ReadFile
    \/ ReadFileFails
    \/ Combine
    \/ SkipFilter
    \/ Filter
    \/ NoOutputFolder
    \/ Export

SpecCleaner == CInit /\ [][CNext]_vars

----------------------------------------------------------------------------
(* Claims about the cleaner *)

\* The filter type of the call made, normalised as filter_data does.
CalledType == Lower(Strip(filter_call.keyword_type))

\* filter_data showed its error box ("Error" is the title of no other box).
FilterErrorShown == "Error" \in Range(cmessages)

\* C5: with the type "coordinates" and a keyword that is no well-formed
\* "<lat>, <lon>", the filter reports an error and its caller does not get the
\* unfiltered input table as the result.
C5_MalformedCoordinatesRejected ==
    (filter_call.made /\ CalledType = Coordinates /\ filter_call.keyword \in BadCoordinates) =>
        (FilterErrorShown /\ final_df # filter_call.df)

KnownTypes ==
    { <<115, 116, 97, 116, 101>>, <<99, 105, 116, 121>>, <<99, 111, 117, 110, 116, 121>>,
      <<115, 105, 116, 101>>, Coordinates }

\* The column(s) the filter type needs are not all in the table.
TargetAbsent ==
    LET cols == Range(filter_call.df.cols)
    IN \/ CalledType = <<115, 116, 97, 116, 101>> /\ "State Name" \notin cols
       \/ CalledType = <<99, 105, 116, 121>> /\ "City Name" \notin cols
       \/ CalledType = <<99, 111, 117, 110, 116, 121>> /\ "County Name" \notin cols
       \/ CalledType = <<115, 105, 116, 101>> /\ "Site Num" \notin cols
       \/ CalledType = Coordinates /\ ({"Latitude", "Longitude"} \ cols # {})

\* C6: a filter with an unknown type, or with a type whose target column is
\* not in the table, returns the input table (same rows, same order) and
\* raises no error.  (For the type "coordinates" the keyword is taken
\* well-formed; a malformed one is the case of C5.)
C6_NoOpFilter ==
    (/\ filter_call.made
     /\ CalledType \notin KnownTypes \/ TargetAbsent
     /\ CalledType = Coordinates => filter_call.keyword = GoodCoordinates)
    => (final_df = filter_call.df /\ ~FilterErrorShown /\ cpc # "raised")

\* The pollutant's prefix, as POLLUTANT_PREFIX lists it.
ExpectedPrefix(pollutant) ==
    IF pollutant = <<80, 77, 50, 46, 53>> THEN <<80, 77, 50, 53>>
    ELSE IF pollutant = <<80, 77, 49, 48>> THEN <<80, 77, 49, 48>>
    ELSE IF pollutant = <<78, 79, 50>> THEN <<78, 79, 50>>
    ELSE <<85, 78, 75, 78, 79, 87, 78>>

\* prefix, "-", i in decimal on four digits (i < 10000).
ExpectedId(pollutant, i) ==
    ExpectedPrefix(pollutant)
    \o <<45, 48 + ((i \div 1000) % 10), 48 + ((i \div 100) % 10),
         48 + ((i \div 10) % 10), 48 + (i % 10)>>

IdsOf(t) == [i \in 1..Len(t.rows) |-> t.rows[i]["Sample ID"]]

\* C7: row i (1-based) of an annotated batch has the Sample ID <prefix>-<i on
\* at least 4 digits>, so the IDs of one batch are pairwise distinct; combined
\* batches keep their batch-local IDs.
C7_SampleIds ==
    /\ \A k \in 1..Len(frames) :
          /\ \A i \in 1..Len(frames[k].rows) :
                frames[k].rows[i]["Sample ID"]
                    = ExpectedId(frames[k].rows[i]["Pollutant Name"], i)
          /\ \A i, j \in 1..Len(frames[k].rows) :
                i # j => frames[k].rows[i]["Sample ID"] # frames[k].rows[j]["Sample ID"]
    /\ (cpc = "combined" /\ combine) =>
          IdsOf(final_df) = Flatten([k \in 1..Len(frames) |-> IdsOf(frames[k])])

\* Witness of C7: two batches of the same pollutant were combined, the first of
\* two rows, and the first row of each carries the same Sample ID.
C7_Witness ==
    /\ cpc = "combined" /\ combine
    /\ Len(frames) = 2
    /\ Len(frames[1].rows) = 2 /\ Len(frames[2].rows) >= 1
    /\ final_df.rows[1]["Sample ID"] = final_df.rows[3]["Sample ID"]
    /\ final_df.rows[1]["Sample ID"] # final_df.rows[2]["Sample ID"]

IsOk(s) == s.ok

\* The annotated rows of the sources that were read, source after source.
ExpectedRows ==
    LET oks == SelectSeq(sources, IsOk)
    IN Flatten([k \in 1..Len(oks) |->
                   clean_and_label_dataframe(oks[k].table, oks[k].pollutant).rows])

SameRows(rows, expected) ==
    /\ Len(rows) = Len(expected)
    /\ \A n \in 1..Len(expected) : \A c \in DOMAIN expected[n] : rows[n][c] = expected[n][c]

IsReadError(m) == m = "Error Reading File"

\* C10: with combination requested, whatever sources fail to read, each failure
\* is reported and skipped, the run goes on to the export step, and the table
\* exported (before any filter) holds the annotated rows of exactly the sources
\* that were read, batch after batch in selection order.
C10_FailingSourcesSkipped ==
    combine =>
        /\ cpc # "raised"
        /\ cpc \in {"combined", "filtered", "exported"} =>
              /\ Len(SelectSeq(cmessages, IsReadError))
                    = Len(sources) - Len(SelectSeq(sources, IsOk))
              /\ SameRows(IF filter_call.made THEN filter_call.df.rows ELSE final_df.rows,
                          ExpectedRows)
        /\ (exported.written /\ ~filter_call.made) => SameRows(exported.table.rows, ExpectedRows)

====
